---------------------------- MODULE Spec2Model ----------------------------
(***************************************************************************)
(* The RMRK 1.0.0 consolidator (src/tools/consolidator/consolidator.ts):   *)
(* a Consolidator replays an ordered sequence of remarks against a storage *)
(* adapter, one handler per interaction type, and accumulates the ledger   *)
(* of invalid calls and the interaction-change log.                        *)
(*                                                                         *)
(* An optional value (T | undefined) is a sequence of length 0 or 1.       *)
(* A string that is inspected character by character (hex keys, symbols,   *)
(* generated ids) is a sequence of one-character strings; every other      *)
(* string is a TLA+ string.                                                *)
(***************************************************************************)
EXTENDS Integers, Sequences, FiniteSets, TLC

\* Number of remarks one consolidate call is fed.
MaxRemarks == 3
\* Highest block number a remark carries.
MaxBlock == 2
\* Number of consolidate calls made on one Consolidator instance.
MaxCalls == 2

Undefined == <<>>

Some(x) == <<x>>

-----------------------------------------------------------------------------
(* JavaScript string primitives, on sequences of characters (0-based).     *)

Min(a, b) == IF a < b THEN a ELSE b

\* String.prototype.substr(start, length), start >= 0
Substr(s, start, length) ==
    SubSeq(s, Min(start, Len(s)) + 1, Min(start + length, Len(s)))

\* String.prototype.substring(start), start >= 0
Substring(s, start) == SubSeq(s, Min(start, Len(s)) + 1, Len(s))

UpperChar(c) ==
    CASE c = "a" -> "A" [] c = "b" -> "B" [] c = "c" -> "C"
      [] c = "d" -> "D" [] c = "e" -> "E" [] c = "f" -> "F"
      [] c = "x" -> "X" [] OTHER -> c

\* String.prototype.toUpperCase()
ToUpperCase(s) == [i \in 1..Len(s) |-> UpperChar(s[i])]

Repeat(c, n) == [i \in 1..n |-> c]

-----------------------------------------------------------------------------
(* Addresses, public keys and symbols.                                     *)

Callers == {"alice", "bob"}

\* decodeAddress(caller) rendered as its 64 lower-case hex digits
PubkeyDigits(caller) ==
    IF caller = "alice"
    THEN Repeat("1", 8) \o Repeat("0", 48) \o Repeat("2", 8)
    ELSE Repeat("a", 8) \o Repeat("0", 48) \o Repeat("b", 8)

\* u8aToHex(pubkey): "0x" followed by the lower-case hex digits
U8aToHex(caller) == <<"0", "x">> \o PubkeyDigits(caller)

\* The characters of a collection symbol.  "LONG" is a 47-character symbol
\* that ends in the last 8 hex digits of alice's key.
SymbolChars(symbol) ==
    IF symbol = "LONG" THEN Repeat("Z", 39) \o Repeat("2", 8) ELSE <<"S">>

\* Collection.generateId(pubkey, symbol)
GenerateId(pubkey, symbol) ==
    ToUpperCase(Substr(pubkey, 2, 10) \o Substring(pubkey, Len(pubkey) - 8)
                \o <<"-">> \o symbol)

\* validateMintIds, lines 18-24: the four fragments it compares
PubkeyStart(caller) == Substr(U8aToHex(caller), 2, 8)

PubkeyEnd(caller) == Substring(U8aToHex(caller), Len(U8aToHex(caller)) - 8)

IdStart(caller, symbol) ==
    Substr(GenerateId(U8aToHex(caller), SymbolChars(symbol)), 0, 8)

IdEnd(caller, symbol) ==
    Substring(GenerateId(U8aToHex(caller), SymbolChars(symbol)),
              Len(U8aToHex(caller)) - 8)

\* validateMintIds: TRUE when it throws
ValidateMintIdsThrows(collection, remark) ==
    /\ IdStart(remark.caller, collection.symbol) = PubkeyStart(remark.caller)
    /\ IdEnd(remark.caller, collection.symbol) = PubkeyEnd(remark.caller)

-----------------------------------------------------------------------------
(* Remarks and the entity parsers (one per interaction type).  A parser    *)
(* returns Ok(entity), or Throw(message) for the failure string.           *)

Throw(message) == [ok |-> FALSE, error |-> message]

Ok(entity) == [ok |-> TRUE, entity |-> entity]

OpTypes ==
    {"MINT", "MINTNFT", "SEND", "BUY", "CONSUME", "LIST", "EMOTE", "CHANGEISSUER"}

Emojis == {"heart"}

ParseFailure == Throw("invalid remark")

\* Collection.fromRemark(remark.remark, remark.block)
CollectionFromRemark(text, block) ==
    CASE text = "MINT::C" ->
           Ok([id |-> "C", symbol |-> "SYM", issuer |-> "alice",
            max |-> 1, block |-> block])
      [] text = "MINT::L" ->
           Ok([id |-> "L", symbol |-> "LONG", issuer |-> "alice",
            max |-> 0, block |-> block])
      [] OTHER -> ParseFailure

\* NFT.fromRemark(remark.remark, remark.block)
NFTFromRemark(text, block) ==
    CASE text = "MINTNFT::X" ->
           Ok([id |-> "X", collection |-> "C", sn |-> 1,
            block |-> block, owner |-> "", forsale |-> 0, burned |-> "",
            reactions |-> [e \in Emojis |-> {}]])
      [] text = "MINTNFT::Y" ->
           Ok([id |-> "Y", collection |-> "C", sn |-> 2,
            block |-> block, owner |-> "", forsale |-> 0, burned |-> "",
            reactions |-> [e \in Emojis |-> {}]])
      [] OTHER -> ParseFailure

\* Send.fromRemark(remark.remark)
SendFromRemark(text) ==
    CASE text = "SEND::X::alice" -> Ok([id |-> "X", recipient |-> "alice"])
      [] text = "SEND::X::bob" -> Ok([id |-> "X", recipient |-> "bob"])
      [] OTHER -> ParseFailure

\* List.fromRemark(remark.remark)
ListFromRemark(text) ==
    CASE text = "LIST::X::100" -> Ok([id |-> "X", price |-> 100])
      [] text = "LIST::X::0" -> Ok([id |-> "X", price |-> 0])
      [] OTHER -> ParseFailure

\* Buy.fromRemark(remark.remark)
BuyFromRemark(text) ==
    CASE text = "BUY::X::100" -> Ok([id |-> "X", price |-> 100])
      [] text = "BUY::X::50" -> Ok([id |-> "X", price |-> 50])
      [] OTHER -> ParseFailure

\* Consume.fromRemark(remark.remark)
ConsumeFromRemark(text) ==
    CASE text = "CONSUME::X" -> Ok([id |-> "X", reason |-> "consumed"])
      [] OTHER -> ParseFailure

\* Emote.fromRemark(remark.remark)
EmoteFromRemark(text) ==
    CASE text = "EMOTE::X::heart" -> Ok([id |-> "X", unicode |-> "heart"])
      [] OTHER -> ParseFailure

\* getChangeIssuerEntity(remark), before it throws on a failure
ChangeIssuerFromRemark(text) ==
    CASE text = "CHANGEISSUER::C::alice" -> Ok([id |-> "C", issuer |-> "alice"])
      [] text = "CHANGEISSUER::C::bob" -> Ok([id |-> "C", issuer |-> "bob"])
      [] OTHER -> ParseFailure

\* The remark texts a caller signs under each interaction type.  "garbage"
\* fails to parse under every type.
TextsOf(kind, caller) ==
    CASE kind = "MINT" ->
           IF caller = "alice" THEN {"MINT::C", "MINT::L", "garbage"} ELSE {"MINT::C"}
      [] kind = "MINTNFT" ->
           IF caller = "alice" THEN {"MINTNFT::X", "MINTNFT::Y", "garbage"}
           ELSE {"MINTNFT::X"}
      [] kind = "SEND" ->
           IF caller = "alice" THEN {"SEND::X::bob", "garbage"} ELSE {"SEND::X::alice"}
      [] kind = "LIST" ->
           IF caller = "alice" THEN {"LIST::X::100", "LIST::X::0", "garbage"}
           ELSE {"LIST::X::100"}
      [] kind = "BUY" ->
           IF caller = "alice" THEN {"BUY::X::100", "garbage"}
           ELSE {"BUY::X::100", "BUY::X::50"}
      [] kind = "CONSUME" ->
           IF caller = "alice" THEN {"CONSUME::X", "garbage"} ELSE {"CONSUME::X"}
      [] kind = "EMOTE" ->
           IF caller = "alice" THEN {"EMOTE::X::heart", "garbage"}
           ELSE {"EMOTE::X::heart"}
      [] kind = "CHANGEISSUER" ->
           IF caller = "alice" THEN {"CHANGEISSUER::C::bob", "garbage"}
           ELSE {"CHANGEISSUER::C::alice"}
      [] OTHER -> IF caller = "alice" THEN {"garbage"} ELSE {}

\* The remarks of interaction type kind that a sequence may hold at these blocks.
RemarksOf(kind, blocks) ==
    { [interaction_type |-> kind, caller |-> c, block |-> b, remark |-> t] :
        <<c, t>> \in UNION {{<<c, t>> : t \in TextsOf(kind, c)} : c \in Callers},
        b \in blocks }

-----------------------------------------------------------------------------
VARIABLES
    pc,                     \* "idle" | "loop" | "done" | "failed" (an exception left
                            \* consolidate): position in consolidate
    emitInteractionChanges, \* constructor option
    dbCollections,          \* the adapter's consolidated collections
    dbNFTs,                 \* the adapter's consolidated NFTs
    invalidCalls,           \* this.invalidCalls
    interactionChanges,     \* this.interactionChanges
    collections,            \* this.collections
    nfts,                   \* this.nfts
    history,                \* per processed remark: the remark and what its handler did
    before,                 \* what the consolidator and the adapter held when the
                            \* latest remark was taken up
    result                  \* the values the consolidate calls returned, in call order

vars ==
    <<pc, emitInteractionChanges, dbCollections, dbNFTs, invalidCalls,
      interactionChanges, collections, nfts, history, before, result>>

-----------------------------------------------------------------------------
(* The storage adapter (IConsolidatorAdapter, in-memory implementation).   *)

RECURSIVE FindIndex(_, _, _)
\* index of the first element of seq with this id, from index i on; 0 if none
FindIndex(seq, id, i) ==
    IF i > Len(seq) THEN 0
    ELSE IF seq[i].id = id THEN i
    ELSE FindIndex(seq, id, i + 1)

Find(seq, id) ==
    IF FindIndex(seq, id, 1) = 0 THEN Undefined ELSE Some(seq[FindIndex(seq, id, 1)])

Replace(seq, id, entity) ==
    [i \in 1..Len(seq) |-> IF i = FindIndex(seq, id, 1) THEN entity ELSE seq[i]]

GetCollectionById(id) == Find(dbCollections, id)

GetNFTByIdUnique(id) == Find(dbNFTs, id)

GetNFTById(id) == Find(dbNFTs, id)

ConsolidatedCollection(collection, updatedAtBlock) ==
    [id |-> collection.id, symbol |-> collection.symbol, issuer |-> collection.issuer,
     max |-> collection.max, block |-> collection.block,
     updatedAtBlock |-> updatedAtBlock]

ConsolidatedNFT(nft, updatedAtBlock) ==
    [id |-> nft.id, collection |-> nft.collection, sn |-> nft.sn, block |-> nft.block,
     owner |-> nft.owner, forsale |-> nft.forsale, burned |-> nft.burned,
     reactions |-> nft.reactions, updatedAtBlock |-> updatedAtBlock]

UpdateCollectionMint(collection) ==
    Append(dbCollections, ConsolidatedCollection(collection, collection.block))

UpdateNFTMint(nft, updatedAtBlock) ==
    Append(dbNFTs, ConsolidatedNFT(nft, updatedAtBlock))

UpdateNFTSend(nft, consolidatedNFT, updatedAtBlock) ==
    Replace(dbNFTs, consolidatedNFT.id,
            [consolidatedNFT EXCEPT !.owner = nft.owner, !.forsale = nft.forsale,
                                    !.updatedAtBlock = updatedAtBlock])

UpdateNFTList(nft, consolidatedNFT, updatedAtBlock) ==
    Replace(dbNFTs, consolidatedNFT.id,
            [consolidatedNFT EXCEPT !.forsale = nft.forsale,
                                    !.updatedAtBlock = updatedAtBlock])

UpdateNFTBuy(nft, consolidatedNFT, updatedAtBlock) ==
    Replace(dbNFTs, consolidatedNFT.id,
            [consolidatedNFT EXCEPT !.owner = nft.owner, !.forsale = nft.forsale,
                                    !.updatedAtBlock = updatedAtBlock])

UpdateNFTConsume(nft, consolidatedNFT, updatedAtBlock) ==
    Replace(dbNFTs, consolidatedNFT.id,
            [consolidatedNFT EXCEPT !.burned = nft.burned, !.forsale = nft.forsale,
                                    !.updatedAtBlock = updatedAtBlock])

UpdateNFTEmote(nft, consolidatedNFT, updatedAtBlock) ==
    Replace(dbNFTs, consolidatedNFT.id,
            [consolidatedNFT EXCEPT !.reactions = nft.reactions,
                                    !.updatedAtBlock = updatedAtBlock])

UpdateCollectionIssuer(collection, consolidatedCollection, updatedAtBlock) ==
    Replace(dbCollections, consolidatedCollection.id,
            [consolidatedCollection EXCEPT !.issuer = collection.issuer,
                                           !.updatedAtBlock = updatedAtBlock])

\* consolidatedNFTtoInstance: undefined stays undefined
ConsolidatedNFTtoInstance(consolidatedNFT) ==
    IF consolidatedNFT = Undefined THEN Undefined
    ELSE LET n == consolidatedNFT[1] IN
         Some([id |-> n.id, collection |-> n.collection, sn |-> n.sn,
               block |-> n.block, owner |-> n.owner, forsale |-> n.forsale,
               burned |-> n.burned, reactions |-> n.reactions])

\* consolidatedCollectionToInstance: undefined stays undefined
ConsolidatedCollectionToInstance(consolidatedCollection) ==
    IF consolidatedCollection = Undefined THEN Undefined
    ELSE LET c == consolidatedCollection[1] IN
         Some([id |-> c.id, symbol |-> c.symbol, issuer |-> c.issuer,
               max |-> c.max, block |-> c.block])

-----------------------------------------------------------------------------
(* The validation rules (interactions/*.ts).  Each returns Throw(message)   *)
(* when it throws, and otherwise Ok(the instance as the rule leaves it).   *)

CountInCollection(id) ==
    Cardinality({i \in 1..Len(dbNFTs) : dbNFTs[i].collection = id})

\* validateMintNFT(remark, nft, collection)
ValidateMintNFT(remark, nft, collection) ==
    IF collection = Undefined
    THEN Throw("[MINTNFT] Attempted issuance over non-existant collection")
    ELSE IF collection[1].issuer # remark.caller
    THEN Throw("[MINTNFT] Attempted issuance over someone else's collection")
    ELSE IF collection[1].max # 0 /\ CountInCollection(nft.collection) >= collection[1].max
    THEN Throw("[MINTNFT] Attempted issuance beyond the collection's max")
    ELSE IF nft.sn # CountInCollection(nft.collection) + 1
    THEN Throw("[MINTNFT] Serial number is not the next unused one")
    ELSE Ok([nft EXCEPT !.owner = collection[1].issuer])

\* sendInteraction(remark, sendEntity, nft)
SendInteraction(remark, sendEntity, nft) ==
    IF nft = Undefined
    THEN Throw("[SEND] Attempting to send non-existant NFT")
    ELSE IF nft[1].burned # ""
    THEN Throw("[SEND] Attempting to send burned NFT")
    ELSE IF nft[1].owner # remark.caller
    THEN Throw("[SEND] Attempting to send non-owned NFT")
    ELSE Ok([nft[1] EXCEPT !.owner = sendEntity.recipient, !.forsale = 0])

\* listForSaleInteraction(remark, listEntity, nft)
ListForSaleInteraction(remark, listEntity, nft) ==
    IF nft = Undefined
    THEN Throw("[LIST] Attempting to list non-existant NFT")
    ELSE IF nft[1].burned # ""
    THEN Throw("[LIST] Attempting to list burned NFT")
    ELSE IF nft[1].owner # remark.caller
    THEN Throw("[LIST] Attempting to list non-owned NFT")
    ELSE Ok([nft[1] EXCEPT !.forsale = listEntity.price])

\* buyInteraction(remark, buyEntity, nft, ss58Format)
BuyInteraction(remark, buyEntity, nft) ==
    IF nft = Undefined
    THEN Throw("[BUY] Attempting to buy non-existant NFT")
    ELSE IF nft[1].burned # ""
    THEN Throw("[BUY] Attempting to buy burned NFT")
    ELSE IF nft[1].forsale <= 0
    THEN Throw("[BUY] Attempting to buy not-for-sale NFT")
    ELSE IF buyEntity.price # nft[1].forsale
    THEN Throw("[BUY] Transfer does not match the listing price")
    ELSE Ok([nft[1] EXCEPT !.owner = remark.caller, !.forsale = 0])

\* consumeInteraction(remark, consumeEntity, nft)
ConsumeInteraction(remark, consumeEntity, nft) ==
    IF nft = Undefined
    THEN Throw("[CONSUME] Attempting to consume non-existant NFT")
    ELSE IF nft[1].burned # ""
    THEN Throw("[CONSUME] Attempting to burn already burned NFT")
    ELSE IF nft[1].owner # remark.caller
    THEN Throw("[CONSUME] Attempting to consume non-owned NFT")
    ELSE Ok([nft[1] EXCEPT !.burned = consumeEntity.reason])

\* emoteInteraction(remark, emoteEntity, nft, emitEmoteChanges)
EmoteInteraction(remark, emoteEntity, nft) ==
    IF nft = Undefined
    THEN Throw("[EMOTE] Attempting to emote on non-existant NFT")
    ELSE IF nft[1].burned # ""
    THEN Throw("[EMOTE] Cannot emote to a burned NFT")
    ELSE LET who == nft[1].reactions[emoteEntity.unicode] IN
         Ok([nft[1] EXCEPT !.reactions[emoteEntity.unicode] =
                IF remark.caller \in who
                THEN who \ {remark.caller}
                ELSE who \cup {remark.caller}])

\* changeIssuerInteraction(remark, changeIssuerEntity, collection)
ChangeIssuerInteraction(remark, changeIssuerEntity, collection) ==
    IF collection = Undefined
    THEN Throw("[CHANGEISSUER] Attempting to change issuer of non-existant collection")
    ELSE IF collection[1].issuer # remark.caller
    THEN Throw("[CHANGEISSUER] Attempting to change issuer of non-owned collection")
    ELSE Ok([collection[1] EXCEPT !.issuer = changeIssuerEntity.issuer])

-----------------------------------------------------------------------------
(* The handlers.  A handler's effect is a record: the entries it appends   *)
(* to the ledger and to the change log, the adapter's and the instance's   *)
(* collections and NFTs as it leaves them, the adapter reads it made, the  *)
(* adapter update methods it called, the boolean it returns, whether it    *)
(* threw instead of returning, and the adapter call that failed, if any.   *)

NoEffect ==
    [invalid |-> <<>>, changes |-> <<>>, dbCollections |-> dbCollections,
     dbNFTs |-> dbNFTs, collections |-> collections, nfts |-> nfts,
     reads |-> 0, applied |-> <<>>, returned |-> FALSE, thrown |-> FALSE,
     fault |-> "none"]

\* variant: the update function keys every entry on the raw remark text
UpdateInvalidCallsKeyedOnText(op_type, remark, object_id, message) ==
    <<[op_type |-> op_type, block |-> remark.block, caller |-> remark.caller,
       object_id |-> remark.remark, message |-> message]>>

\* updateInvalidCalls(op_type, remark) and the update function it returns
UpdateInvalidCalls(op_type, remark, object_id, message) ==
    <<[op_type |-> op_type, block |-> remark.block, caller |-> remark.caller,
       object_id |-> object_id, message |-> message]>>

\* a handler's path through invalidate(...); return true
Invalidated(op_type, remark, object_id, message, reads) ==
    [NoEffect EXCEPT !.invalid = UpdateInvalidCalls(op_type, remark, object_id, message),
                     !.reads = reads, !.returned = TRUE]

\* if (this.emitInteractionChanges) this.interactionChanges.push({[op]: id})
Change(op_type, id) ==
    IF emitInteractionChanges THEN <<[op |-> op_type, id |-> id]>> ELSE <<>>

\* variant: mint without the check for an existing collection
MintHandlerNoExistingCheck(remark) ==
    LET parsed == CollectionFromRemark(remark.remark, remark.block) IN
    IF ~parsed.ok
    THEN Invalidated("MINT", remark, remark.remark,
                     "[MINT] Dead before instantiation", 0)
    ELSE LET collection == parsed.entity IN
    IF ValidateMintIdsThrows(collection, remark)
    THEN Invalidated("MINT", remark, collection.id,
                     "Caller's pubkey does not match generated ID", 1)
    ELSE [NoEffect EXCEPT !.dbCollections = UpdateCollectionMint(collection),
                          !.collections = Append(collections, collection),
                          !.changes = Change("MINT", collection.id),
                          !.reads = 1,
                          !.applied = <<"updateCollectionMint">>]

\* variant: the parser's exception is not caught
MintHandlerUncaughtParse(remark) ==
    LET parsed == CollectionFromRemark(remark.remark, remark.block) IN
    IF ~parsed.ok
    THEN [NoEffect EXCEPT !.thrown = TRUE]
    ELSE LET collection == parsed.entity IN
    IF GetCollectionById(collection.id) # Undefined
    THEN Invalidated("MINT", remark, collection.id,
                     "[MINT] Attempt to mint already existing collection", 1)
    ELSE IF ValidateMintIdsThrows(collection, remark)
    THEN Invalidated("MINT", remark, collection.id,
                     "Caller's pubkey does not match generated ID", 1)
    ELSE [NoEffect EXCEPT !.dbCollections = UpdateCollectionMint(collection),
                          !.collections = Append(collections, collection),
                          !.changes = Change("MINT", collection.id),
                          !.reads = 1,
                          !.applied = <<"updateCollectionMint">>]

MintHandler(remark) ==
    LET parsed == CollectionFromRemark(remark.remark, remark.block) IN
    IF ~parsed.ok
    THEN Invalidated("MINT", remark, remark.remark,
                     "[MINT] Dead before instantiation", 0)
    ELSE LET collection == parsed.entity IN
    IF GetCollectionById(collection.id) # Undefined
    THEN Invalidated("MINT", remark, collection.id,
                     "[MINT] Attempt to mint already existing collection", 1)
    ELSE IF ValidateMintIdsThrows(collection, remark)
    THEN Invalidated("MINT", remark, collection.id,
                     "Caller's pubkey does not match generated ID", 1)
    ELSE [NoEffect EXCEPT !.dbCollections = UpdateCollectionMint(collection),
                          !.collections = Append(collections, collection),
                          !.changes = Change("MINT", collection.id),
                          !.reads = 1,
                          !.applied = <<"updateCollectionMint">>]

\* variant: mintNFT validates against this.collections, not the adapter
MintNFTHandlerCachedCollection(remark) ==
    LET parsed == NFTFromRemark(remark.remark, remark.block) IN
    IF ~parsed.ok
    THEN Invalidated("MINTNFT", remark, remark.remark,
                     "[MINTNFT] Dead before instantiation", 0)
    ELSE LET nft == parsed.entity IN
    IF GetNFTByIdUnique(nft.id) # Undefined
    THEN Invalidated("MINTNFT", remark, nft.id,
                     "[MINTNFT] Attempt to mint already existing NFT", 1)
    ELSE LET collection == Find(collections, nft.collection)
             valid == ValidateMintNFT(remark, nft, collection) IN
    IF ~valid.ok
    THEN Invalidated("MINTNFT", remark, nft.id, valid.error, 1)
    ELSE [NoEffect EXCEPT !.dbNFTs = UpdateNFTMint(valid.entity, remark.block),
                          !.nfts = Append(nfts, valid.entity),
                          !.changes = Change("MINTNFT", nft.id),
                          !.reads = 1,
                          !.applied = <<"updateNFTMint">>]

MintNFTHandler(remark) ==
    LET parsed == NFTFromRemark(remark.remark, remark.block) IN
    IF ~parsed.ok
    THEN Invalidated("MINTNFT", remark, remark.remark,
                     "[MINTNFT] Dead before instantiation", 0)
    ELSE LET nft == parsed.entity IN
    IF GetNFTByIdUnique(nft.id) # Undefined
    THEN Invalidated("MINTNFT", remark, nft.id,
                     "[MINTNFT] Attempt to mint already existing NFT", 1)
    ELSE LET collection == ConsolidatedCollectionToInstance(GetCollectionById(nft.collection))
             valid == ValidateMintNFT(remark, nft, collection) IN
    IF ~valid.ok
    THEN Invalidated("MINTNFT", remark, nft.id, valid.error, 2)
    ELSE [NoEffect EXCEPT !.dbNFTs = UpdateNFTMint(valid.entity, remark.block),
                          !.nfts = Append(nfts, valid.entity),
                          !.changes = Change("MINTNFT", nft.id),
                          !.reads = 2,
                          !.applied = <<"updateNFTMint">>]

\* variant: send hands the adapter the instance as it was read
SendHandlerStale(remark) ==
    LET sendEntity == SendFromRemark(remark.remark) IN
    IF ~sendEntity.ok
    THEN Invalidated("SEND", remark, remark.remark,
                     "[SEND] Dead before instantiation", 0)
    ELSE LET consolidatedNFT == GetNFTByIdUnique(sendEntity.entity.id)
             nft == ConsolidatedNFTtoInstance(consolidatedNFT)
             valid == SendInteraction(remark, sendEntity.entity, nft) IN
    IF ~valid.ok
    THEN Invalidated("SEND", remark, sendEntity.entity.id, valid.error, 1)
    ELSE [NoEffect EXCEPT !.dbNFTs = UpdateNFTSend(nft[1], consolidatedNFT[1],
                                                   remark.block),
                          !.changes = Change("SEND", valid.entity.id),
                          !.reads = 1,
                          !.applied = <<"updateNFTSend">>]

\* variant: send validates against the item as it was before the previous
\* remark was processed
SendHandlerLagging(remark) ==
    LET sendEntity == SendFromRemark(remark.remark) IN
    IF ~sendEntity.ok
    THEN Invalidated("SEND", remark, remark.remark,
                     "[SEND] Dead before instantiation", 0)
    ELSE LET consolidatedNFT == Find(before.dbNFTs, sendEntity.entity.id)
             nft == ConsolidatedNFTtoInstance(consolidatedNFT)
             valid == SendInteraction(remark, sendEntity.entity, nft) IN
    IF ~valid.ok
    THEN Invalidated("SEND", remark, sendEntity.entity.id, valid.error, 1)
    ELSE IF nft # Undefined /\ consolidatedNFT # Undefined
    THEN [NoEffect EXCEPT !.dbNFTs = UpdateNFTSend(valid.entity, consolidatedNFT[1],
                                                   remark.block),
                          !.changes = Change("SEND", valid.entity.id),
                          !.reads = 1,
                          !.applied = <<"updateNFTSend">>]
    ELSE [NoEffect EXCEPT !.reads = 1]

\* variant: send skips an absent item without recording an invalid call
SendHandlerSilent(remark) ==
    LET sendEntity == SendFromRemark(remark.remark) IN
    IF ~sendEntity.ok
    THEN Invalidated("SEND", remark, remark.remark,
                     "[SEND] Dead before instantiation", 0)
    ELSE LET consolidatedNFT == GetNFTByIdUnique(sendEntity.entity.id)
             nft == ConsolidatedNFTtoInstance(consolidatedNFT)
             valid == SendInteraction(remark, sendEntity.entity, nft) IN
    IF nft = Undefined
    THEN [NoEffect EXCEPT !.reads = 1]
    ELSE IF ~valid.ok
    THEN Invalidated("SEND", remark, sendEntity.entity.id, valid.error, 1)
    ELSE [NoEffect EXCEPT !.dbNFTs = UpdateNFTSend(valid.entity, consolidatedNFT[1],
                                                   remark.block),
                          !.changes = Change("SEND", valid.entity.id),
                          !.reads = 1,
                          !.applied = <<"updateNFTSend">>]

SendHandler(remark) ==
    LET sendEntity == SendFromRemark(remark.remark) IN
    IF ~sendEntity.ok
    THEN Invalidated("SEND", remark, remark.remark,
                     "[SEND] Dead before instantiation", 0)
    ELSE LET consolidatedNFT == GetNFTByIdUnique(sendEntity.entity.id)
             nft == ConsolidatedNFTtoInstance(consolidatedNFT)
             valid == SendInteraction(remark, sendEntity.entity, nft) IN
    IF ~valid.ok
    THEN Invalidated("SEND", remark, sendEntity.entity.id, valid.error, 1)
    ELSE IF nft # Undefined /\ consolidatedNFT # Undefined
    THEN [NoEffect EXCEPT !.dbNFTs = UpdateNFTSend(valid.entity, consolidatedNFT[1],
                                                   remark.block),
                          !.changes = Change("SEND", valid.entity.id),
                          !.reads = 1,
                          !.applied = <<"updateNFTSend">>]
    ELSE [NoEffect EXCEPT !.reads = 1]

ListHandler(remark) ==
    LET listEntity == ListFromRemark(remark.remark) IN
    IF ~listEntity.ok
    THEN Invalidated("LIST", remark, remark.remark,
                     "[LIST] Dead before instantiation", 0)
    ELSE LET consolidatedNFT == GetNFTByIdUnique(listEntity.entity.id)
             nft == ConsolidatedNFTtoInstance(consolidatedNFT)
             valid == ListForSaleInteraction(remark, listEntity.entity, nft) IN
    IF ~valid.ok
    THEN Invalidated("LIST", remark, listEntity.entity.id, valid.error, 1)
    ELSE IF nft # Undefined /\ consolidatedNFT # Undefined
    THEN [NoEffect EXCEPT !.dbNFTs = UpdateNFTList(valid.entity, consolidatedNFT[1],
                                                   remark.block),
                          !.changes = Change("LIST", valid.entity.id),
                          !.reads = 1,
                          !.applied = <<"updateNFTList">>,
                          !.returned = TRUE]
    ELSE [NoEffect EXCEPT !.reads = 1, !.returned = TRUE]

\* variant: consume persists whenever the item is stored, valid or not
ConsumeHandlerUnvalidated(remark) ==
    LET consumeEntity == ConsumeFromRemark(remark.remark) IN
    IF ~consumeEntity.ok
    THEN Invalidated("CONSUME", remark, remark.remark,
                     "[CONSUME] Dead before instantiation", 0)
    ELSE LET consolidatedNFT == GetNFTByIdUnique(consumeEntity.entity.id)
             nft == ConsolidatedNFTtoInstance(consolidatedNFT)
             valid == ConsumeInteraction(remark, consumeEntity.entity, nft) IN
    IF nft = Undefined
    THEN Invalidated("CONSUME", remark, consumeEntity.entity.id, valid.error, 1)
    ELSE [NoEffect EXCEPT !.dbNFTs =
                              UpdateNFTConsume([nft[1] EXCEPT
                                                   !.burned = consumeEntity.entity.reason],
                                               consolidatedNFT[1], remark.block),
                          !.changes = Change("CONSUME", nft[1].id),
                          !.reads = 1,
                          !.applied = <<"updateNFTConsume">>,
                          !.returned = TRUE]

ConsumeHandler(remark) ==
    LET consumeEntity == ConsumeFromRemark(remark.remark) IN
    IF ~consumeEntity.ok
    THEN Invalidated("CONSUME", remark, remark.remark,
                     "[CONSUME] Dead before instantiation", 0)
    ELSE LET consolidatedNFT == GetNFTByIdUnique(consumeEntity.entity.id)
             nft == ConsolidatedNFTtoInstance(consolidatedNFT)
             valid == ConsumeInteraction(remark, consumeEntity.entity, nft) IN
    IF ~valid.ok
    THEN Invalidated("CONSUME", remark, consumeEntity.entity.id, valid.error, 1)
    ELSE IF nft # Undefined /\ consolidatedNFT # Undefined
    THEN [NoEffect EXCEPT !.dbNFTs = UpdateNFTConsume(valid.entity, consolidatedNFT[1],
                                                      remark.block),
                          !.changes = Change("CONSUME", valid.entity.id),
                          !.reads = 1,
                          !.applied = <<"updateNFTConsume">>,
                          !.returned = TRUE]
    ELSE [NoEffect EXCEPT !.reads = 1, !.returned = TRUE]

\* variant: buy hands the adapter the instance as it was read
BuyHandlerStale(remark) ==
    LET buyEntity == BuyFromRemark(remark.remark) IN
    IF ~buyEntity.ok
    THEN Invalidated("BUY", remark, remark.remark,
                     "[BUY] Dead before instantiation", 0)
    ELSE LET consolidatedNFT == GetNFTByIdUnique(buyEntity.entity.id)
             nft == ConsolidatedNFTtoInstance(consolidatedNFT)
             valid == BuyInteraction(remark, buyEntity.entity, nft) IN
    IF ~valid.ok
    THEN Invalidated("BUY", remark, buyEntity.entity.id, valid.error, 1)
    ELSE [NoEffect EXCEPT !.dbNFTs = UpdateNFTBuy(nft[1], consolidatedNFT[1],
                                                  remark.block),
                          !.changes = Change("BUY", valid.entity.id),
                          !.reads = 1,
                          !.applied = <<"updateNFTBuy">>,
                          !.returned = TRUE]

BuyHandler(remark) ==
    LET buyEntity == BuyFromRemark(remark.remark) IN
    IF ~buyEntity.ok
    THEN Invalidated("BUY", remark, remark.remark,
                     "[BUY] Dead before instantiation", 0)
    ELSE LET consolidatedNFT == GetNFTByIdUnique(buyEntity.entity.id)
             nft == ConsolidatedNFTtoInstance(consolidatedNFT)
             valid == BuyInteraction(remark, buyEntity.entity, nft) IN
    IF ~valid.ok
    THEN Invalidated("BUY", remark, buyEntity.entity.id, valid.error, 1)
    ELSE IF nft # Undefined /\ consolidatedNFT # Undefined
    THEN [NoEffect EXCEPT !.dbNFTs = UpdateNFTBuy(valid.entity, consolidatedNFT[1],
                                                  remark.block),
                          !.changes = Change("BUY", valid.entity.id),
                          !.reads = 1,
                          !.applied = <<"updateNFTBuy">>,
                          !.returned = TRUE]
    ELSE [NoEffect EXCEPT !.reads = 1, !.returned = TRUE]

\* variant: emote without the same-block test
EmoteHandlerNoBlockTest(remark) ==
    LET emoteEntity == EmoteFromRemark(remark.remark) IN
    IF ~emoteEntity.ok
    THEN Invalidated("EMOTE", remark, remark.remark,
                     "[EMOTE] Dead before instantiation", 0)
    ELSE LET consolidatedNFT == GetNFTById(emoteEntity.entity.id)
             nft == ConsolidatedNFTtoInstance(consolidatedNFT)
             valid == EmoteInteraction(remark, emoteEntity.entity, nft) IN
    IF ~valid.ok
    THEN Invalidated("EMOTE", remark, emoteEntity.entity.id, valid.error, 1)
    ELSE IF nft # Undefined /\ consolidatedNFT # Undefined
    THEN [NoEffect EXCEPT !.dbNFTs = UpdateNFTEmote(valid.entity, consolidatedNFT[1],
                                                    remark.block),
                          !.changes = Change("EMOTE", valid.entity.id),
                          !.reads = 1,
                          !.applied = <<"updateNFTEmote">>]
    ELSE [NoEffect EXCEPT !.reads = 1]

\* variant: emote logs the interaction change outside the same-block test
EmoteHandlerLogsSkipped(remark) ==
    LET emoteEntity == EmoteFromRemark(remark.remark) IN
    IF ~emoteEntity.ok
    THEN Invalidated("EMOTE", remark, remark.remark,
                     "[EMOTE] Dead before instantiation", 0)
    ELSE LET consolidatedNFT == GetNFTById(emoteEntity.entity.id)
             nft == ConsolidatedNFTtoInstance(consolidatedNFT)
             valid == EmoteInteraction(remark, emoteEntity.entity, nft) IN
    IF ~valid.ok
    THEN Invalidated("EMOTE", remark, emoteEntity.entity.id, valid.error, 1)
    ELSE IF /\ nft # Undefined
            /\ consolidatedNFT # Undefined
            /\ remark.block # consolidatedNFT[1].updatedAtBlock
    THEN [NoEffect EXCEPT !.dbNFTs = UpdateNFTEmote(valid.entity, consolidatedNFT[1],
                                                    remark.block),
                          !.changes = Change("EMOTE", valid.entity.id),
                          !.reads = 1,
                          !.applied = <<"updateNFTEmote">>]
    ELSE [NoEffect EXCEPT !.changes = Change("EMOTE", valid.entity.id), !.reads = 1]

EmoteHandler(remark) ==
    LET emoteEntity == EmoteFromRemark(remark.remark) IN
    IF ~emoteEntity.ok
    THEN Invalidated("EMOTE", remark, remark.remark,
                     "[EMOTE] Dead before instantiation", 0)
    ELSE LET consolidatedNFT == GetNFTById(emoteEntity.entity.id)
             nft == ConsolidatedNFTtoInstance(consolidatedNFT)
             valid == EmoteInteraction(remark, emoteEntity.entity, nft) IN
    IF ~valid.ok
    THEN Invalidated("EMOTE", remark, emoteEntity.entity.id, valid.error, 1)
    ELSE IF /\ nft # Undefined
            /\ consolidatedNFT # Undefined
            /\ remark.block # consolidatedNFT[1].updatedAtBlock
    THEN [NoEffect EXCEPT !.dbNFTs = UpdateNFTEmote(valid.entity, consolidatedNFT[1],
                                                    remark.block),
                          !.changes = Change("EMOTE", valid.entity.id),
                          !.reads = 1,
                          !.applied = <<"updateNFTEmote">>]
    ELSE [NoEffect EXCEPT !.reads = 1]

\* variant: changeIssuer calls the adapter before it runs the validation rule
ChangeIssuerHandlerApplyFirst(remark) ==
    LET changeIssuerEntity == ChangeIssuerFromRemark(remark.remark) IN
    IF ~changeIssuerEntity.ok
    THEN Invalidated("CHANGEISSUER", remark, remark.remark,
                     "[CHANGEISSUER] Dead before instantiation", 0)
    ELSE LET consolidatedCollection == GetCollectionById(changeIssuerEntity.entity.id)
             collection == ConsolidatedCollectionToInstance(consolidatedCollection)
             valid == ChangeIssuerInteraction(remark, changeIssuerEntity.entity,
                                              collection) IN
    IF collection = Undefined
    THEN Invalidated("CHANGEISSUER", remark, changeIssuerEntity.entity.id,
                     valid.error, 1)
    ELSE IF ~valid.ok
    THEN [Invalidated("CHANGEISSUER", remark, changeIssuerEntity.entity.id,
                      valid.error, 1)
             EXCEPT !.dbCollections =
                        UpdateCollectionIssuer(
                            [collection[1] EXCEPT
                                !.issuer = changeIssuerEntity.entity.issuer],
                            consolidatedCollection[1], remark.block),
                    !.applied = <<"updateCollectionIssuer">>]
    ELSE [NoEffect EXCEPT !.dbCollections =
                              UpdateCollectionIssuer(valid.entity,
                                                     consolidatedCollection[1],
                                                     remark.block),
                          !.changes = Change("CHANGEISSUER", valid.entity.id),
                          !.reads = 1,
                          !.applied = <<"updateCollectionIssuer">>]

ChangeIssuerHandler(remark) ==
    LET changeIssuerEntity == ChangeIssuerFromRemark(remark.remark) IN
    IF ~changeIssuerEntity.ok
    THEN Invalidated("CHANGEISSUER", remark, remark.remark,
                     "[CHANGEISSUER] Dead before instantiation", 0)
    ELSE LET consolidatedCollection == GetCollectionById(changeIssuerEntity.entity.id)
             collection == ConsolidatedCollectionToInstance(consolidatedCollection)
             valid == ChangeIssuerInteraction(remark, changeIssuerEntity.entity,
                                              collection) IN
    IF ~valid.ok
    THEN Invalidated("CHANGEISSUER", remark, changeIssuerEntity.entity.id,
                     valid.error, 1)
    ELSE IF collection # Undefined /\ consolidatedCollection # Undefined
    THEN [NoEffect EXCEPT !.dbCollections =
                              UpdateCollectionIssuer(valid.entity,
                                                     consolidatedCollection[1],
                                                     remark.block),
                          !.changes = Change("CHANGEISSUER", valid.entity.id),
                          !.reads = 1,
                          !.applied = <<"updateCollectionIssuer">>]
    ELSE [NoEffect EXCEPT !.reads = 1]

-----------------------------------------------------------------------------
\* What the consolidator and its adapter hold.
Snapshot ==
    [dbCollections |-> dbCollections, dbNFTs |-> dbNFTs,
     invalidCalls |-> invalidCalls, interactionChanges |-> interactionChanges,
     collections |-> collections, nfts |-> nfts]

-----------------------------------------------------------------------------
(* The stores a Consolidator may be constructed over: the default empty    *)
(* InMemoryAdapter, and an adapter passed in that holds what earlier runs  *)
(* consolidated (collection C of alice, and its first item X).             *)

StoredC ==
    [id |-> "C", symbol |-> "SYM", issuer |-> "alice", max |-> 1, block |-> 1,
     updatedAtBlock |-> 1]

StoredX ==
    [id |-> "X", collection |-> "C", sn |-> 1, block |-> 1, owner |-> "alice",
     forsale |-> 0, burned |-> "", reactions |-> [e \in Emojis |-> {}],
     updatedAtBlock |-> 1]

InitStores ==
    { [collections |-> <<>>, nfts |-> <<>>],
      [collections |-> <<StoredC>>, nfts |-> <<>>],
      [collections |-> <<StoredC>>, nfts |-> <<StoredX>>] }

\* constructor, lines 92-109
Init ==
    /\ pc = "idle"
    /\ emitInteractionChanges \in BOOLEAN
    /\ \E store \in InitStores :
          /\ dbCollections = store.collections
          /\ dbNFTs = store.nfts
    /\ invalidCalls = <<>>
    /\ interactionChanges = <<>>
    /\ collections = <<>>
    /\ nfts = <<>>
    /\ history = <<>>
    /\ before = Snapshot
    /\ result = <<>>

\* new Consolidator(ss58Format, dbAdapter, false, true) over an adapter that
\* holds collection C and item X
InitStocked ==
    /\ Init
    /\ emitInteractionChanges
    /\ dbCollections = <<StoredC>>
    /\ dbNFTs = <<StoredX>>

\* new Consolidator(ss58Format, undefined, false, true): the default adapter,
\* empty, and the interaction-change log enabled
InitFresh ==
    /\ Init
    /\ emitInteractionChanges
    /\ dbCollections = <<>>
    /\ dbNFTs = <<>>

-----------------------------------------------------------------------------
(* consolidate: the loop over the remarks, one action per case of the      *)
(* switch, and the assembly of the returned snapshot.                      *)

\* Remarks arrive in ascending block order.
LastBlock == IF history = <<>> THEN 1 ELSE history[Len(history)].remark.block

NextBlocks == LastBlock..MaxBlock

\* variant: a handler that returns true ends the loop instead of continuing it
ProcessStopsOnTrue(remark, effect) ==
    /\ pc = "loop"
    /\ Len(history) < MaxRemarks
    /\ invalidCalls' = invalidCalls \o effect.invalid
    /\ interactionChanges' = interactionChanges \o effect.changes
    /\ dbCollections' = effect.dbCollections
    /\ dbNFTs' = effect.dbNFTs
    /\ collections' = effect.collections
    /\ nfts' = effect.nfts
    /\ history' = Append(history,
                         [remark |-> remark,
                          reads |-> effect.reads,
                          applied |-> effect.applied,
                          invalid |-> Len(effect.invalid),
                          changes |-> Len(effect.changes),
                          returned |-> effect.returned,
                          thrown |-> effect.thrown,
                          fault |-> effect.fault])
    /\ before' = Snapshot
    /\ pc' = IF effect.thrown THEN "failed" ELSE IF effect.returned THEN "done" ELSE pc
    /\ UNCHANGED <<emitInteractionChanges, result>>

\* One iteration of the for loop: the handler's effect on the state.
Process(remark, effect) ==
    /\ pc = "loop"
    /\ Len(history) < MaxRemarks
    /\ invalidCalls' = invalidCalls \o effect.invalid
    /\ interactionChanges' = interactionChanges \o effect.changes
    /\ dbCollections' = effect.dbCollections
    /\ dbNFTs' = effect.dbNFTs
    /\ collections' = effect.collections
    /\ nfts' = effect.nfts
    /\ history' = Append(history,
                         [remark |-> remark,
                          reads |-> effect.reads,
                          applied |-> effect.applied,
                          invalid |-> Len(effect.invalid),
                          changes |-> Len(effect.changes),
                          returned |-> effect.returned,
                          thrown |-> effect.thrown,
                          fault |-> effect.fault])
    /\ before' = Snapshot
    /\ pc' = IF effect.thrown THEN "failed" ELSE pc
    /\ UNCHANGED <<emitInteractionChanges, result>>

\* consolidate is entered: const remarks = rmrks || []
Consolidate ==
    /\ pc = "idle"
    /\ pc' = "loop"
    /\ UNCHANGED <<emitInteractionChanges, dbCollections, dbNFTs, invalidCalls,
                   interactionChanges, collections, nfts, history, before, result>>

Mint == \E remark \in RemarksOf("MINT", NextBlocks) : Process(remark, MintHandler(remark))

MintNFT ==
    \E remark \in RemarksOf("MINTNFT", NextBlocks) : Process(remark, MintNFTHandler(remark))

Send == \E remark \in RemarksOf("SEND", NextBlocks) : Process(remark, SendHandler(remark))

Buy == \E remark \in RemarksOf("BUY", NextBlocks) : Process(remark, BuyHandler(remark))

Consume ==
    \E remark \in RemarksOf("CONSUME", NextBlocks) : Process(remark, ConsumeHandler(remark))

List == \E remark \in RemarksOf("LIST", NextBlocks) : Process(remark, ListHandler(remark))

Emote == \E remark \in RemarksOf("EMOTE", NextBlocks) : Process(remark, EmoteHandler(remark))

ChangeIssuer ==
    \E remark \in RemarksOf("CHANGEISSUER", NextBlocks) :
        Process(remark, ChangeIssuerHandler(remark))

\* variant: the default case records an invalid call
WrongTypeInvalid ==
    \E remark \in RemarksOf("UNKNOWN", NextBlocks) :
        Process(remark, Invalidated(remark.interaction_type, remark, remark.remark,
                                    "Unable to process this remark - wrong type", 0))

\* default: console.error("Unable to process this remark - wrong type: ...")
WrongType == \E remark \in RemarksOf("UNKNOWN", NextBlocks) : Process(remark, NoEffect)

\* variant: the snapshot is built from this.nfts and this.collections
ReturnInstanceLists ==
    /\ pc = "loop"
    /\ pc' = "done"
    /\ \E bulkReaders \in BOOLEAN :
          result' = Append(result,
                           [nfts |-> IF bulkReaders THEN nfts ELSE <<>>,
                            collections |-> IF bulkReaders THEN collections ELSE <<>>,
                            invalid |-> invalidCalls,
                            changes |-> IF emitInteractionChanges
                                        THEN Some(interactionChanges)
                                        ELSE Undefined])
    /\ UNCHANGED <<emitInteractionChanges, dbCollections, dbNFTs, invalidCalls,
                   interactionChanges, collections, nfts, history, before>>

\* lines 552-562; bulkReaders: whether the adapter has getAllNFTs/getAllCollections
Return ==
    /\ pc = "loop"
    /\ pc' = "done"
    /\ \E bulkReaders \in BOOLEAN :
          result' = Append(result,
                           [nfts |-> IF bulkReaders THEN dbNFTs ELSE <<>>,
                            collections |-> IF bulkReaders THEN dbCollections ELSE <<>>,
                            invalid |-> invalidCalls,
                            changes |-> IF emitInteractionChanges
                                        THEN Some(interactionChanges)
                                        ELSE Undefined])
    /\ UNCHANGED <<emitInteractionChanges, dbCollections, dbNFTs, invalidCalls,
                   interactionChanges, collections, nfts, history, before>>

Next ==
    \/ Consolidate
    \/ Mint
    \/ MintNFT
    \/ Send
    \/ Buy
    \/ Consume
    \/ List
    \/ Emote
    \/ ChangeIssuer
    \/ WrongType
    \/ Return

Spec == Init /\ [][Next]_vars

\* The for-of loop runs over a finite array and every call it awaits
\* returns, so the statements after the loop, which assemble the snapshot,
\* are reached.
FairSpec == InitFresh /\ [][Next]_vars /\ WF_vars(Return)

-----------------------------------------------------------------------------
(* Vocabulary of the properties.  The latest remark found the consolidator *)
(* and the adapter as `before' and left them as Snapshot; every prefix of  *)
(* a remark sequence is a remark sequence, so a property of the latest     *)
(* remark in every reachable state is a property of every remark.          *)

Processed == 1..Len(history)

Latest == IF history = <<>> THEN {} ELSE {Len(history)}

After == Snapshot

ItemOps == {"SEND", "LIST", "BUY", "CONSUME", "EMOTE"}

\* The parse of a remark by the parser of its interaction type.
Parsed(remark) ==
    CASE remark.interaction_type = "MINT" ->
           CollectionFromRemark(remark.remark, remark.block)
      [] remark.interaction_type = "MINTNFT" -> NFTFromRemark(remark.remark, remark.block)
      [] remark.interaction_type = "SEND" -> SendFromRemark(remark.remark)
      [] remark.interaction_type = "LIST" -> ListFromRemark(remark.remark)
      [] remark.interaction_type = "BUY" -> BuyFromRemark(remark.remark)
      [] remark.interaction_type = "CONSUME" -> ConsumeFromRemark(remark.remark)
      [] remark.interaction_type = "EMOTE" -> EmoteFromRemark(remark.remark)
      [] remark.interaction_type = "CHANGEISSUER" -> ChangeIssuerFromRemark(remark.remark)
      [] OTHER -> ParseFailure

\* Remark i is a well-formed one of these types.
WellFormed(i, types) ==
    history[i].remark.interaction_type \in types /\ Parsed(history[i].remark).ok

\* The entity remark i carries, and the id it names.
EntityOf(i) == Parsed(history[i].remark).entity

IdOf(i) == EntityOf(i).id

Known(i) == history[i].remark.interaction_type \in OpTypes

WasApplied(i) == history[i].applied # <<>>

\* Remark i is of this type, names this id and was applied.
AppliedOn(i, op_type, id) ==
    /\ history[i].remark.interaction_type = op_type
    /\ WasApplied(i)
    /\ IdOf(i) = id

Stored(seq, id) == Find(seq, id) # Undefined

\* Remark i was rejected: one more ledger entry, of this type and keyed on
\* this object id, no adapter update, the adapter's stores untouched.
Rejected(i, op_type, object_id) ==
    /\ history[i].applied = <<>>
    /\ history[i].invalid = 1
    /\ Len(After.invalidCalls) = Len(before.invalidCalls) + 1
    /\ SubSeq(After.invalidCalls, 1, Len(before.invalidCalls))
          = before.invalidCalls
    /\ After.invalidCalls[Len(After.invalidCalls)].op_type = op_type
    /\ After.invalidCalls[Len(After.invalidCalls)].object_id = object_id
    /\ After.dbNFTs = before.dbNFTs
    /\ After.dbCollections = before.dbCollections

-----------------------------------------------------------------------------
\* C1 (as claimed): every processed remark of a recognized operation kind is
\* either applied through exactly one adapter update call or recorded as
\* exactly one invalid call, never both and never neither; so applied
\* remarks plus ledger entries number the recognized remarks.
C1_InvalidCallCompleteness ==
    /\ \A i \in Processed :
          Known(i) => Len(history[i].applied) + history[i].invalid = 1
    /\ Cardinality({i \in Processed : WasApplied(i)}) + Len(invalidCalls)
          = Cardinality({i \in Processed : Known(i)})

-----------------------------------------------------------------------------
\* The first 8 and the last 8 hex characters a generated id embeds, and the
\* fragments of the caller's public key hex they correspond to.
GeneratedIdOf(caller, symbol) == GenerateId(U8aToHex(caller), SymbolChars(symbol))

FragmentsMatch(caller, symbol) ==
    /\ Substr(GeneratedIdOf(caller, symbol), 0, 8)
          = ToUpperCase(SubSeq(PubkeyDigits(caller), 1, 8))
    /\ Substr(GeneratedIdOf(caller, symbol), 10, 8)
          = ToUpperCase(SubSeq(PubkeyDigits(caller), 57, 64))

\* C2 (as claimed): a well-formed MINT for a collection that does not exist
\* yet is rejected (one ledger entry keyed on the collection id, nothing
\* persisted) exactly when a fragment of the generated id differs from the
\* caller's public key; when both match, the collection is persisted and
\* the ledger is left alone.
C2_MintIdSpoofingCheck ==
    \A i \in Latest :
        (WellFormed(i, {"MINT"}) /\ ~Stored(before.dbCollections, IdOf(i)))
        => IF FragmentsMatch(history[i].remark.caller, EntityOf(i).symbol)
           THEN /\ After.invalidCalls = before.invalidCalls
                /\ Len(After.dbCollections) = Len(before.dbCollections) + 1
                /\ Stored(After.dbCollections, IdOf(i))
           ELSE /\ Rejected(i, "MINT", IdOf(i))
                /\ ~Stored(After.dbCollections, IdOf(i))

-----------------------------------------------------------------------------
\* The store a mint remark adds to.
MintStore(i, snapshot) ==
    IF history[i].remark.interaction_type = "MINT"
    THEN snapshot.dbCollections ELSE snapshot.dbNFTs

\* C3: a well-formed MINT or MINTNFT that replays a remark already applied
\* in the sequence, or whose id is already stored, is rejected with one
\* ledger entry keyed on the id, calls no adapter update, leaves the stored
\* entity as it was, and the store holds exactly one entity with that id.
C3_IdentifierUniqueness ==
    \A i \in Latest :
        (/\ WellFormed(i, {"MINT", "MINTNFT"})
         /\ \/ \E h \in 1..(i - 1) :
                  history[h].remark = history[i].remark /\ WasApplied(h)
            \/ Stored(MintStore(i, before), IdOf(i)))
        => /\ Rejected(i, history[i].remark.interaction_type, IdOf(i))
           /\ Cardinality({k \in 1..Len(MintStore(i, After)) :
                              MintStore(i, After)[k].id = IdOf(i)}) = 1
           /\ After.collections = before.collections
           /\ After.nfts = before.nfts

\* C3 witness: on a fresh store, MINT and MINTNFT applied, then the same
\* MINTNFT remark replayed and rejected.
C3_Witness ==
    /\ Len(history) = 3
    /\ history[1].applied = <<"updateCollectionMint">>
    /\ history[2].applied = <<"updateNFTMint">>
    /\ history[3].remark = history[2].remark
    /\ history[3].invalid = 1
    /\ Len(dbNFTs) = 1

-----------------------------------------------------------------------------
Burned(seq, id) == Stored(seq, id) /\ Find(seq, id)[1].burned # ""

\* C4: once an item is burned, every well-formed SEND, LIST, BUY, EMOTE or
\* CONSUME naming it is rejected with one ledger entry and no adapter update;
\* a burned item's stored record never changes again, and at most one
\* CONSUME is ever applied to an item.
C4_BurnTerminality ==
    /\ \A i \in Latest :
          /\ (WellFormed(i, ItemOps) /\ Burned(before.dbNFTs, IdOf(i)))
                => Rejected(i, history[i].remark.interaction_type, IdOf(i))
          /\ \A k \in 1..Len(before.dbNFTs) :
                before.dbNFTs[k].burned # ""
                   => After.dbNFTs[k] = before.dbNFTs[k]
    /\ \A i, j \in Processed :
          (/\ history[i].applied = <<"updateNFTConsume">>
           /\ history[j].applied = <<"updateNFTConsume">>
           /\ IdOf(i) = IdOf(j)) => i = j

\* C4 witness: a CONSUME applied, then two remarks of different kinds on the
\* burned item, both rejected.
C4_Witness ==
    /\ Len(history) = 3
    /\ history[1].applied = <<"updateNFTConsume">>
    /\ history[2].remark.interaction_type = "SEND"
    /\ history[3].remark.interaction_type = "EMOTE"
    /\ history[2].invalid = 1
    /\ history[3].invalid = 1
    /\ Burned(dbNFTs, "X")

-----------------------------------------------------------------------------
\* C5: a BUY at price p by another caller, right after an applied LIST of
\* the item at price p > 0, is applied, makes the buyer the owner and sets
\* forsale to 0; a BUY of an item bought since its last applied LIST is
\* rejected with one ledger entry and leaves the stores as they were.
C5_ListThenBuy ==
    \A i \in Latest :
        WellFormed(i, {"BUY"}) =>
           /\ (/\ i > 1
               /\ AppliedOn(i - 1, "LIST", IdOf(i))
               /\ EntityOf(i - 1).price > 0
               /\ EntityOf(i).price = EntityOf(i - 1).price
               /\ history[i].remark.caller # history[i - 1].remark.caller)
              => /\ history[i].applied = <<"updateNFTBuy">>
                 /\ history[i].invalid = 0
                 /\ After.invalidCalls = before.invalidCalls
                 /\ Find(After.dbNFTs, IdOf(i))[1].owner = history[i].remark.caller
                 /\ Find(After.dbNFTs, IdOf(i))[1].forsale = 0
           /\ (\E h \in 1..(i - 1) :
                  /\ AppliedOn(h, "BUY", IdOf(i))
                  /\ \A j \in (h + 1)..(i - 1) : ~AppliedOn(j, "LIST", IdOf(i)))
              => Rejected(i, "BUY", IdOf(i))

\* C5 witness: LIST applied, BUY applied, and a second BUY in the same block
\* rejected.
C5_Witness ==
    /\ Len(history) = 3
    /\ history[1].applied = <<"updateNFTList">>
    /\ history[2].applied = <<"updateNFTBuy">>
    /\ history[3].remark.interaction_type = "BUY"
    /\ history[3].remark.block = history[2].remark.block
    /\ history[3].invalid = 1
    /\ Find(dbNFTs, "X")[1].owner = history[2].remark.caller

-----------------------------------------------------------------------------
\* C6: right after an applied SEND or BUY the item's forsale is 0, and no
\* remark changes a stored item's owner and leaves it listed.
C6_OwnerChangeCancelsListing ==
    \A i \in Latest :
        /\ history[i].applied \in {<<"updateNFTSend">>, <<"updateNFTBuy">>}
              => Find(After.dbNFTs, IdOf(i))[1].forsale = 0
        /\ \A k \in 1..Len(before.dbNFTs) :
              After.dbNFTs[k].owner # before.dbNFTs[k].owner
                 => After.dbNFTs[k].forsale = 0

\* C6 witness: an item listed at a price and then sent by its owner.
C6_Witness ==
    /\ Len(history) >= 2
    /\ history[Len(history) - 1].applied = <<"updateNFTList">>
    /\ EntityOf(Len(history) - 1).price > 0
    /\ history[Len(history)].applied = <<"updateNFTSend">>
    /\ Find(dbNFTs, "X")[1].forsale = 0

-----------------------------------------------------------------------------
\* C7: a MINTNFT is applied only when its caller is the issuer the adapter
\* stores for the collection at that point; a well-formed MINTNFT of a new
\* id by anyone else is rejected; an applied CHANGEISSUER stores the new
\* issuer, and from then on (until the next applied CHANGEISSUER) a MINTNFT
\* into the collection by any caller but the new issuer is rejected.
C7_IssuerAuthority ==
    \A i \in Latest :
        /\ history[i].applied = <<"updateNFTMint">>
              => /\ Stored(before.dbCollections, EntityOf(i).collection)
                 /\ Find(before.dbCollections, EntityOf(i).collection)[1].issuer
                       = history[i].remark.caller
        /\ (/\ WellFormed(i, {"MINTNFT"})
            /\ ~Stored(before.dbNFTs, IdOf(i))
            /\ \/ ~Stored(before.dbCollections, EntityOf(i).collection)
               \/ Find(before.dbCollections, EntityOf(i).collection)[1].issuer
                     # history[i].remark.caller)
              => Rejected(i, "MINTNFT", IdOf(i))
        /\ history[i].applied = <<"updateCollectionIssuer">>
              => Find(After.dbCollections, IdOf(i))[1].issuer = EntityOf(i).issuer
        /\ (/\ WellFormed(i, {"MINTNFT"})
            /\ \E h \in 1..(i - 1) :
                  /\ AppliedOn(h, "CHANGEISSUER", EntityOf(i).collection)
                  /\ EntityOf(h).issuer # history[i].remark.caller
                  /\ \A j \in (h + 1)..(i - 1) :
                        ~AppliedOn(j, "CHANGEISSUER", EntityOf(i).collection))
              => /\ history[i].applied = <<>>
                 /\ history[i].invalid = 1
                 /\ After.dbNFTs = before.dbNFTs

\* C7 witness: the issuer is changed, the previous issuer's MINTNFT is
\* rejected and the new issuer's MINTNFT is applied.
C7_Witness ==
    /\ Len(history) = 3
    /\ history[1].applied = <<"updateCollectionIssuer">>
    /\ history[2].remark.interaction_type = "MINTNFT"
    /\ history[2].remark.caller = history[1].remark.caller
    /\ history[2].invalid = 1
    /\ history[3].applied = <<"updateNFTMint">>
    /\ history[3].remark.caller = EntityOf(1).issuer

-----------------------------------------------------------------------------
\* C8: a well-formed SEND of an item that is not stored is rejected with one
\* ledger entry keyed on the item id and no adapter update; the MINTNFT that
\* later creates the item only appends it, owned by the minting issuer, and
\* leaves the ledger (with the SEND's rejection) as it was.
C8_SendBeforeMint ==
    \A i \in Latest :
        /\ (WellFormed(i, {"SEND"}) /\ ~Stored(before.dbNFTs, IdOf(i)))
              => Rejected(i, "SEND", IdOf(i))
        /\ history[i].applied = <<"updateNFTMint">>
              => LET minted == After.dbNFTs[Len(After.dbNFTs)] IN
                 /\ After.invalidCalls = before.invalidCalls
                 /\ Len(After.dbNFTs) = Len(before.dbNFTs) + 1
                 /\ SubSeq(After.dbNFTs, 1, Len(before.dbNFTs)) = before.dbNFTs
                 /\ minted.id = IdOf(i)
                 /\ minted.owner = history[i].remark.caller
                 /\ minted.owner
                       = Find(before.dbCollections, EntityOf(i).collection)[1].issuer

\* C8 witness: a SEND of X to bob rejected, then X minted; X belongs to the
\* minter and the ledger still holds the SEND.
C8_Witness ==
    \E i, j \in Processed :
        /\ i < j
        /\ history[i].remark.interaction_type = "SEND"
        /\ history[i].remark.remark = "SEND::X::bob"
        /\ history[i].invalid = 1
        /\ history[j].applied = <<"updateNFTMint">>
        /\ IdOf(j) = "X"
        /\ Find(dbNFTs, "X")[1].owner = "alice"
        /\ \E k \in 1..Len(invalidCalls) :
              invalidCalls[k].op_type = "SEND" /\ invalidCalls[k].object_id = "X"

-----------------------------------------------------------------------------
\* C10: a remark of none of the eight interaction types makes no adapter
\* read or update, adds nothing to the ledger or the change log, changes
\* nothing the consolidator or the adapter holds, and the loop goes on.
C10_WrongTypeSkipped ==
    \A i \in Latest :
        ~Known(i) =>
           /\ history[i].reads = 0
           /\ history[i].applied = <<>>
           /\ history[i].invalid = 0
           /\ history[i].changes = 0
           /\ After = before
           /\ result = Undefined => pc = "loop"

\* C10 witness: a remark of unknown type was skipped and the next remark of
\* the sequence was applied.
C10_Witness ==
    \E i \in Processed :
        /\ i < Len(history)
        /\ ~Known(i)
        /\ WasApplied(i + 1)

-----------------------------------------------------------------------------
\* The entry the latest remark appended to the ledger.
LastInvalid == invalidCalls[Len(invalidCalls)]

\* C11: the ledger entry a rejected remark appends carries the remark's
\* interaction type, block and caller; its object_id is the raw remark text
\* when the remark did not parse and the parsed entity's id when it parsed
\* and was rejected later; for each of the eight interaction types.
C11_InvalidCallFields ==
    \A i \in Latest :
        history[i].invalid = 1 =>
           /\ Known(i)
           /\ Len(invalidCalls) = Len(before.invalidCalls) + 1
           /\ LastInvalid.op_type = history[i].remark.interaction_type
           /\ LastInvalid.block = history[i].remark.block
           /\ LastInvalid.caller = history[i].remark.caller
           /\ LastInvalid.object_id =
                 IF Parsed(history[i].remark).ok
                 THEN IdOf(i) ELSE history[i].remark.remark

\* C11 witness: a ledger holding an entry keyed on a raw remark text and an
\* entry of another interaction type keyed on an entity id, the latest made
\* at block 2 by bob.
C11_Witness ==
    /\ Len(invalidCalls) = 2
    /\ invalidCalls[1].object_id = "garbage"
    /\ invalidCalls[1].op_type = "CHANGEISSUER"
    /\ invalidCalls[2].object_id = "X"
    /\ invalidCalls[2].op_type = "BUY"
    /\ invalidCalls[2].block = 2
    /\ invalidCalls[2].caller = "bob"

-----------------------------------------------------------------------------
\* The adapter update method of each interaction type's handler.
UpdateOf(op_type) ==
    CASE op_type = "MINT" -> "updateCollectionMint"
      [] op_type = "MINTNFT" -> "updateNFTMint"
      [] op_type = "SEND" -> "updateNFTSend"
      [] op_type = "LIST" -> "updateNFTList"
      [] op_type = "BUY" -> "updateNFTBuy"
      [] op_type = "CONSUME" -> "updateNFTConsume"
      [] op_type = "EMOTE" -> "updateNFTEmote"
      [] op_type = "CHANGEISSUER" -> "updateCollectionIssuer"
      [] OTHER -> "none"

\* C12: each remark is handed to the handler of its own interaction type
\* (the update method called and the ledger entry made are that type's);
\* an applied LIST, BUY or CONSUME returns true, any other applied remark
\* returns false, a rejected remark returns true; and whatever was returned,
\* the loop is still running afterwards, until consolidate returns.
C12_PerRemarkIsolation ==
    /\ Len(history) <= MaxRemarks
    /\ \A i \in Latest :
          /\ history[i].applied \in
                {<<>>, <<UpdateOf(history[i].remark.interaction_type)>>}
          /\ history[i].invalid = 1
                => /\ LastInvalid.op_type = history[i].remark.interaction_type
                   /\ history[i].returned
          /\ WasApplied(i)
                => (history[i].returned
                       <=> history[i].remark.interaction_type \in {"LIST", "BUY", "CONSUME"})
          /\ ~history[i].thrown
          /\ result = <<>> => pc = "loop"

\* C12 witness: a rejected remark (true returned), then an applied SEND
\* (false returned), then an applied LIST (true returned).
C12_Witness ==
    /\ Len(history) = 3
    /\ history[1].invalid = 1
    /\ history[1].returned
    /\ history[2].applied = <<"updateNFTSend">>
    /\ ~history[2].returned
    /\ history[3].applied = <<"updateNFTList">>
    /\ history[3].returned

-----------------------------------------------------------------------------
\* C13: no exception leaves consolidate, and every call that is entered
\* returns a snapshot, also when every remark of the sequence was rejected.
C13_AlwaysReturns ==
    /\ [](pc # "failed")
    /\ (pc = "loop") ~> (pc = "done" /\ result # <<>>)

\* C13 witness: the call returned a snapshot after a sequence in which one
\* remark failed to parse, two were rejected by validation, and nothing was
\* applied.
C13_Witness ==
    /\ pc = "done"
    /\ result # <<>>
    /\ Len(history) = 3
    /\ Len(result[1].invalid) = 3
    /\ \E i, j, k \in Processed :
          /\ history[i].remark.remark = "garbage"
          /\ history[j].remark.interaction_type = "MINTNFT" /\ history[j].reads = 2
          /\ history[k].remark.interaction_type = "SEND" /\ history[k].reads = 1

-----------------------------------------------------------------------------
(* Adapter calls that fail (a rejected promise: storage unavailable).  In  *)
(* every handler the adapter reads are awaited before the try block, and   *)
(* the update call is awaited inside it.                                   *)

\* the switch of consolidate
HandlerOf(remark) ==
    CASE remark.interaction_type = "MINT" -> MintHandler(remark)
      [] remark.interaction_type = "MINTNFT" -> MintNFTHandler(remark)
      [] remark.interaction_type = "SEND" -> SendHandler(remark)
      [] remark.interaction_type = "BUY" -> BuyHandler(remark)
      [] remark.interaction_type = "CONSUME" -> ConsumeHandler(remark)
      [] remark.interaction_type = "LIST" -> ListHandler(remark)
      [] remark.interaction_type = "EMOTE" -> EmoteHandler(remark)
      [] remark.interaction_type = "CHANGEISSUER" -> ChangeIssuerHandler(remark)
      [] OTHER -> NoEffect

\* An adapter read of the handler fails: the exception leaves the handler
\* and consolidate, before anything was changed.
ReadFailed(remark) ==
    [NoEffect EXCEPT !.reads = 1, !.thrown = TRUE, !.fault = "read"]

\* The update call of the handler fails: the catch of the try block records
\* the exception as an invalid call on the entity id and returns true.
ApplyFailed(remark) ==
    [Invalidated(remark.interaction_type, remark, Parsed(remark).entity.id,
                 "storage unavailable", HandlerOf(remark).reads)
        EXCEPT !.applied = HandlerOf(remark).applied, !.fault = "apply"]

KnownRemarks == UNION {RemarksOf(kind, NextBlocks) : kind \in OpTypes}

ReadFailure ==
    /\ pc = "loop"
    /\ Len(history) < MaxRemarks
    /\ \E remark \in KnownRemarks :
          /\ HandlerOf(remark).reads > 0
          /\ Process(remark, ReadFailed(remark))

ApplyFailure ==
    /\ pc = "loop"
    /\ Len(history) < MaxRemarks
    /\ \E remark \in KnownRemarks :
          /\ HandlerOf(remark).applied # <<>>
          /\ Process(remark, ApplyFailed(remark))

NextFaulty ==
    \/ Next
    \/ ReadFailure
    \/ ApplyFailure

FaultySpec == InitStocked /\ [][NextFaulty]_vars

\* C14 (as claimed): when an adapter read or an adapter update call fails
\* while a remark is processed, the failure leaves consolidate: no ledger
\* entry is made for it and no later remark is processed.
C14_AdapterFailuresFatal ==
    \A i \in Processed :
        history[i].fault # "none" =>
           /\ history[i].thrown
           /\ history[i].invalid = 0
           /\ i = Len(history)
           /\ pc = "failed"

-----------------------------------------------------------------------------
RECURSIVE AppliedChanges(_)
\* One {operation kind: entity id} entry per applied remark among the first
\* n of the sequence, in their order.
AppliedChanges(n) ==
    IF n = 0 THEN <<>>
    ELSE IF WasApplied(n)
    THEN Append(AppliedChanges(n - 1),
                [op |-> history[n].remark.interaction_type, id |-> IdOf(n)])
    ELSE AppliedChanges(n - 1)

\* C15: with emitInteractionChanges enabled the change log, and the changes
\* list of the returned snapshot, hold exactly one entry per applied remark,
\* in the order the remarks were applied, and none for a rejected, skipped
\* or unknown-type remark; with it disabled the log stays empty and the
\* snapshot has no changes field.
C15_InteractionChangeLog ==
    /\ emitInteractionChanges
          => /\ interactionChanges = AppliedChanges(Len(history))
             /\ \A c \in 1..Len(result) :
                   result[c].changes = Some(AppliedChanges(Len(history)))
    /\ ~emitInteractionChanges
          => /\ interactionChanges = <<>>
             /\ \A c \in 1..Len(result) : result[c].changes = Undefined

\* C15 witness: a snapshot returned after MINT and MINTNFT were applied with
\* a rejected remark between them; its changes list holds the two entries.
C15_Witness ==
    /\ Len(result) = 1
    /\ Len(history) = 3
    /\ history[2].invalid = 1
    /\ result[1].changes
          = Some(<<[op |-> "MINT", id |-> "C"], [op |-> "MINTNFT", id |-> "X"]>>)

-----------------------------------------------------------------------------
-----------------------------------------------------------------------------
\* C17: a remark is validated against the adapter's state as the previous
\* remark left it, which is what the adapter held when it was taken up:
\* right after an applied SEND of an item, a SEND, LIST or CONSUME of it is
\* applied when its caller is the recipient and rejected otherwise; right
\* after an applied MINTNFT the item can be sent by its minter; right after
\* an applied CONSUME every operation on the item is rejected; and no
\* adapter call of a remark is made after the next remark was taken up.
C17_SequentialCausality ==
    \A i \in Latest :
        /\ i > 1 =>
              /\ (/\ WellFormed(i, {"SEND", "LIST", "CONSUME"})
                  /\ AppliedOn(i - 1, "SEND", IdOf(i)))
                 => /\ WasApplied(i)
                          <=> history[i].remark.caller = EntityOf(i - 1).recipient
                    /\ ~WasApplied(i) => history[i].invalid = 1
              /\ (WellFormed(i, {"SEND"}) /\ AppliedOn(i - 1, "MINTNFT", IdOf(i)))
                 => (WasApplied(i)
                        <=> history[i].remark.caller = history[i - 1].remark.caller)
              /\ (WellFormed(i, ItemOps) /\ AppliedOn(i - 1, "CONSUME", IdOf(i)))
                 => Rejected(i, history[i].remark.interaction_type, IdOf(i))
        /\ WasApplied(i) => history[i].reads >= 1
        /\ \A k \in 1..Len(before.dbNFTs) :
              dbNFTs[k] # before.dbNFTs[k]
                 => /\ WasApplied(i)
                    /\ dbNFTs[k].id = IdOf(i)
                    /\ dbNFTs[k].updatedAtBlock = history[i].remark.block

\* C17 witness: alice sends X to bob, bob sends it back, and bob's next SEND
\* is rejected.
C17_Witness ==
    /\ Len(history) = 3
    /\ history[1].applied = <<"updateNFTSend">>
    /\ history[1].remark.caller = "alice"
    /\ history[2].applied = <<"updateNFTSend">>
    /\ history[2].remark.caller = "bob"
    /\ history[3].remark.interaction_type = "SEND"
    /\ history[3].remark.caller = "bob"
    /\ history[3].invalid = 1

-----------------------------------------------------------------------------
\* The entity a well-formed remark acts on is not in the adapter's store.
TargetAbsent(i) ==
    \/ WellFormed(i, ItemOps) /\ ~Stored(before.dbNFTs, IdOf(i))
    \/ WellFormed(i, {"CHANGEISSUER"}) /\ ~Stored(before.dbCollections, IdOf(i))
    \/ WellFormed(i, {"MINTNFT"})
          /\ ~Stored(before.dbCollections, EntityOf(i).collection)

\* C18: one remark makes at most one adapter update call; it makes none
\* when the remark does not parse, is rejected or names an absent item or
\* collection, and then the adapter's items and collections are as before;
\* an absent target is recorded as an invalid call.
C18_ApplyCallsPerRemark ==
    \A i \in Latest :
        /\ Len(history[i].applied) <= 1
        /\ (Known(i) /\ ~Parsed(history[i].remark).ok)
              => history[i].applied = <<>> /\ history[i].reads = 0
        /\ history[i].invalid = 1 => history[i].applied = <<>>
        /\ TargetAbsent(i) => history[i].applied = <<>> /\ history[i].invalid = 1
        /\ history[i].applied = <<>>
              => /\ dbNFTs = before.dbNFTs
                 /\ dbCollections = before.dbCollections

\* C18 witness: on an empty store a CHANGEISSUER and a SEND name an absent
\* collection and an absent item and are rejected without an update call,
\* and a MINT makes one update call.
C18_Witness ==
    /\ Len(history) = 3
    /\ history[1].remark.interaction_type = "CHANGEISSUER"
    /\ history[1].reads = 1
    /\ history[1].invalid = 1
    /\ history[2].remark.interaction_type = "SEND"
    /\ history[2].reads = 1
    /\ history[2].invalid = 1
    /\ history[3].applied = <<"updateCollectionMint">>
    /\ Len(dbCollections) = 1
    /\ dbNFTs = <<>>

-----------------------------------------------------------------------------
\* C19: a well-formed EMOTE of a stored, unburned item in the block of the
\* item's updatedAtBlock does nothing: no update call, no change-log entry,
\* no ledger entry, nothing the consolidator or the adapter holds changes,
\* whoever the caller; in any other block it is applied by updateNFTEmote,
\* which toggles the caller's reaction and sets updatedAtBlock to the block.
C19_EmoteSameBlockSuppression ==
    \A i \in Latest :
        (/\ WellFormed(i, {"EMOTE"})
         /\ Stored(before.dbNFTs, IdOf(i))
         /\ ~Burned(before.dbNFTs, IdOf(i)))
        => LET stored == Find(before.dbNFTs, IdOf(i))[1]
               now == Find(dbNFTs, IdOf(i))[1]
               caller == history[i].remark.caller
               unicode == EntityOf(i).unicode IN
           IF history[i].remark.block = stored.updatedAtBlock
           THEN /\ history[i].applied = <<>>
                /\ history[i].changes = 0
                /\ history[i].invalid = 0
                /\ Snapshot = before
           ELSE /\ history[i].applied = <<"updateNFTEmote">>
                /\ history[i].invalid = 0
                /\ now.updatedAtBlock = history[i].remark.block
                /\ caller \in now.reactions[unicode]
                      <=> caller \notin stored.reactions[unicode]

\* C19 witness: bob's EMOTE in the block X was last updated in is dropped,
\* his EMOTE in the next block is applied.
C19_Witness ==
    /\ Len(history) = 2
    /\ history[1].remark.interaction_type = "EMOTE"
    /\ history[1].remark.caller = "bob"
    /\ history[1].reads = 1
    /\ history[1].applied = <<>>
    /\ history[1].invalid = 0
    /\ history[2].applied = <<"updateNFTEmote">>
    /\ history[2].remark.caller = "bob"
    /\ "bob" \in Find(dbNFTs, "X")[1].reactions["heart"]

-----------------------------------------------------------------------------
(* A Consolidator instance on which consolidate is called again, with the  *)
(* remarks that came in since the previous call.                           *)

\* variant: a call starts from an empty ledger and an empty change log
ConsolidateAgainReset ==
    /\ pc = "done"
    /\ Len(result) < MaxCalls
    /\ pc' = "loop"
    /\ invalidCalls' = <<>>
    /\ interactionChanges' = <<>>
    /\ UNCHANGED <<emitInteractionChanges, dbCollections, dbNFTs, collections, nfts,
                   history, before, result>>

\* consolidate is entered again: the instance's fields are as the previous
\* call left them
ConsolidateAgain ==
    /\ pc = "done"
    /\ Len(result) < MaxCalls
    /\ pc' = "loop"
    /\ UNCHANGED <<emitInteractionChanges, dbCollections, dbNFTs, invalidCalls,
                   interactionChanges, collections, nfts, history, before, result>>

NextTwoCalls ==
    \/ Next
    \/ ConsolidateAgain

TwoCallSpec == InitFresh /\ [][NextTwoCalls]_vars

IsPrefix(s, t) == Len(s) <= Len(t) /\ SubSeq(t, 1, Len(s)) = s

\* C20: the ledger and the change log only grow at their end: what they held
\* when the latest remark was taken up is a prefix of what they hold, every
\* returned invalid list (and changes list) is a prefix of the ledger (the
\* log) as it is now, and so of the list the next call returns.
C20_AppendOnlyLedger ==
    /\ IsPrefix(before.invalidCalls, invalidCalls)
    /\ IsPrefix(before.interactionChanges, interactionChanges)
    /\ \A c \in 1..Len(result) :
          /\ IsPrefix(result[c].invalid, invalidCalls)
          /\ IsPrefix(result[c].changes[1], interactionChanges)
          /\ c > 1 =>
                /\ IsPrefix(result[c - 1].invalid, result[c].invalid)
                /\ IsPrefix(result[c - 1].changes[1], result[c].changes[1])

\* C20 witness: the first call returned a ledger entry and a change, the
\* second call processed one more rejected remark and returned the longer
\* ledger.
C20_Witness ==
    /\ Len(result) = 2
    /\ Len(result[1].invalid) = 1
    /\ Len(result[1].changes[1]) = 1
    /\ Len(result[2].invalid) = 2
    /\ result[2].invalid[1] = result[1].invalid[1]
    /\ result[2].changes = result[1].changes

=============================================================================
